---------------------------- MODULE Spec2Model ----------------------------
(***************************************************************************)
(* Model of app.py: the Flask concept-clarification relay.                 *)
(*                                                                         *)
(* Module start-up (reading OPENAI_API_KEY, building the OpenAI client,    *)
(* registering the routes) and the POST /clarify handler, step by step:    *)
(* request.get_json(), data.get(...), the validation, the prompt           *)
(* composition, the completion call, the extraction of the text or the     *)
(* except branch, and the JSON response.                                   *)
(*                                                                         *)
(* Strings are sequences of tokens (a token is one character, or a fixed   *)
(* literal of the program kept as one piece).                              *)
(***************************************************************************)
EXTENDS Naturals, Sequences, FiniteSets

(* ------------------------------ bounds --------------------------------- *)
\* number of concurrently handled requests
NumRequests == 2
\* longest text the completion service returns
MaxTextLen == 3

Requests == 1..NumRequests

(* --------------------------- Python values ----------------------------- *)
\* A JSON / Python value: t is its type, s its characters (str), n its
\* number (int, bool as 0/1) or its number of elements (list, dict).
Val(t, s, n) == [t |-> t, s |-> s, n |-> n]
\* the key is missing from the JSON object
Absent == Val("absent", <<>>, 0)
None == Val("none", <<>>, 0)
Str(s) == Val("str", s, 0)
Num(n) == Val("num", <<>>, n)
Bool(n) == Val("bool", <<>>, n)
List(n) == Val("list", <<>>, n)
Dict(n) == Val("dict", <<>>, n)

\* Python truth value, as tested by `if not x` / `if x`
TruthyStripped(v) ==
  CASE v.t = "none" -> FALSE
    [] v.t = "str"  -> \E i \in 1..Len(v.s) : v.s[i] \notin {" ", "\t", "\n"}
    [] OTHER        -> v.n # 0

Truthy(v) ==
  CASE v.t = "none" -> FALSE
    [] v.t = "str"  -> Len(v.s) > 0
    [] OTHER        -> v.n # 0

\* str(v), as applied by an f-string replacement field
Format(v) ==
  CASE v.t = "str"  -> v.s
    [] v.t = "none" -> <<"None">>
    [] v.t = "num"  -> IF v.n = 0 THEN <<"0">> ELSE <<"5">>
    [] v.t = "bool" -> IF v.n = 0 THEN <<"False">> ELSE <<"True">>
    [] v.t = "list" -> IF v.n = 0 THEN <<"[", "]">> ELSE <<"[", "0", "]">>
    [] OTHER        -> IF v.n = 0 THEN <<"{", "}">> ELSE <<"{", "'k': 0", "}">>

Whitespace == {" ", "\t", "\n", "\r", "\f"}

RECURSIVE lstrip(_)
lstrip(s) ==
  IF s = <<>> THEN <<>>
  ELSE IF Head(s) \in Whitespace THEN lstrip(Tail(s)) ELSE s

RECURSIVE rstrip(_)
rstrip(s) ==
  IF s = <<>> THEN <<>>
  ELSE IF s[Len(s)] \in Whitespace THEN rstrip(SubSeq(s, 1, Len(s) - 1)) ELSE s

\* str.strip()
strip_left_only(s) == lstrip(s)

strip(s) == rstrip(lstrip(s))

(* --------------------------- request bodies ---------------------------- *)
\* kind: "object" (a JSON object), "null", "array", "scalar" (JSON string
\* or number), "malformed" (not parseable), "not_json" (no JSON content type)
MkBody(kind, q, c) == [kind |-> kind, query |-> q, context |-> c]
NoBody == MkBody("none", Absent, Absent)

QueryValues ==
  { Absent, None, Str(<<>>), Str(<<" ">>), Str(<<"Mutex">>),
    Num(0), Num(5), Bool(0), Bool(1), List(0), List(1), Dict(0), Dict(1) }

ContextValues ==
  { Absent, None, Str(<<>>), Str(<<"Operating Systems">>), Num(5) }

ObjectBodies == { MkBody("object", q, c) : q \in QueryValues, c \in ContextValues }

OtherBodies ==
  { MkBody(k, Absent, Absent) : k \in {"null", "array", "scalar", "malformed", "not_json"} }

Bodies == ObjectBodies \cup OtherBodies

\* the bodies of the concurrent specification
ConcBodies ==
  { MkBody("null", Absent, Absent),
    MkBody("object", Str(<<>>), Absent),
    MkBody("object", Str(<<"Mutex">>), Absent),
    MkBody("object", Str(<<"Mutex">>), Str(<<"Operating Systems">>)) }

\* dict.get(key, default)
DictGet(d, key, default) ==
  LET v == IF key = "query" THEN d.query ELSE d.context
  IN IF v.t = "absent" THEN default ELSE v

(* ------------------------ completion service --------------------------- *)
Alphabet == {"a", " ", "\n"}
Texts == UNION { [1..n -> Alphabet] : n \in 0..MaxTextLen }

\* what client.chat.completions.create(...) does: "ok" returns a response
\* whose first choice has content text; "no_choices" returns an empty
\* choices list; "null_content" a message whose content is None; the others
\* raise
MkResult(kind, text) == [kind |-> kind, text |-> text]
NoResult == MkResult("none", <<>>)
FailureKinds == {"network", "auth", "quota", "no_choices", "null_content"}
Results ==
  { MkResult("ok", t) : t \in Texts } \cup { MkResult(k, <<>>) : k \in FailureKinds }

ConcResults ==
  { MkResult("ok", <<"a">>), MkResult("ok", <<" ", "a", "\n">>), MkResult("network", <<>>) }

ErrorText == <<"Concept query is required.">>
FallbackText ==
  <<"I apologize, but I couldn't generate an explanation at this moment. Please try again later.">>
QueryPrefix == "Explain the concept: '"
ContextPrefix == " Please explain it in the context of '"
ClauseEnd == "'."

\* lines 36-38: the user message
user_message_always_clause(concept_query, subject_context) ==
  <<QueryPrefix>> \o Format(concept_query) \o <<ClauseEnd>>
    \o <<ContextPrefix>> \o Format(subject_context) \o <<ClauseEnd>>

user_message(concept_query, subject_context) ==
  LET base == <<QueryPrefix>> \o Format(concept_query) \o <<ClauseEnd>>
  IN IF Truthy(subject_context)
     THEN base \o <<ContextPrefix>> \o Format(subject_context) \o <<ClauseEnd>>
     ELSE base

(* ------------------------------ responses ------------------------------ *)
\* payload: the set of <<key, text>> members of the JSON body ({} for the
\* HTML error pages Flask produces itself)
MkResponse(status, payload) == [status |-> status, payload |-> payload]
NoResponse == MkResponse(0, {})
jsonify(key, text) == {<<key, text>>}

(* -------------------------------- state -------------------------------- *)
VARIABLES
  env_key,         \* OPENAI_API_KEY in the environment after load_dotenv()
  flask_legacy,    \* TRUE: Flask < 2.1, get_json() returns None for a non-JSON body
  boot,            \* position of the module's top-level code
  openai_api_key,  \* module global, line 11
  client,          \* module global, line 18 (None until built)
  routes,          \* routes registered on app
  req,             \* per request: the handler's position and locals
  log              \* what the handlers printed, in order

vars == <<env_key, flask_legacy, boot, openai_api_key, client, routes, req, log>>

IdleRequest ==
  [ pc |-> "idle", body |-> NoBody, data |-> NoBody,
    concept_query |-> Absent, subject_context |-> Absent,
    user_message |-> <<>>, result |-> NoResult, raised |-> FALSE,
    explanation |-> <<>>, calls |-> 0, branch |-> {}, response |-> NoResponse ]

Init ==
  /\ env_key \in { None, Str(<<>>), Str(<<"sk-test">>) }
  /\ flask_legacy \in BOOLEAN
  /\ boot = "getenv"
  /\ openai_api_key = Absent
  /\ client = None
  /\ routes = {}
  /\ req = [r \in Requests |-> IdleRequest]
  /\ log = <<>>

(* ------------------------------ start-up ------------------------------- *)
\* line 11
GetEnv ==
  /\ boot = "getenv"
  /\ openai_api_key' = env_key
  /\ boot' = "check"
  /\ UNCHANGED <<env_key, flask_legacy, client, routes, req, log>>

\* lines 12-16
CheckKeyNoneOnly ==
  /\ boot = "check"
  /\ boot' = IF openai_api_key.t = "none" THEN "aborted" ELSE "client"
  /\ UNCHANGED <<env_key, flask_legacy, openai_api_key, client, routes, req, log>>

CheckKey ==
  /\ boot = "check"
  /\ boot' = IF ~Truthy(openai_api_key) THEN "aborted" ELSE "client"
  /\ UNCHANGED <<env_key, flask_legacy, openai_api_key, client, routes, req, log>>

\* line 18
BuildClient ==
  /\ boot = "client"
  /\ client' = openai_api_key
  /\ boot' = "routes"
  /\ UNCHANGED <<env_key, flask_legacy, openai_api_key, routes, req, log>>

\* lines 60-69, then app.run
RegisterRoutes ==
  /\ boot = "routes"
  /\ routes' = {"/", "/clarify"}
  /\ boot' = "serving"
  /\ UNCHANGED <<env_key, flask_legacy, openai_api_key, client, req, log>>

(* --------------------------- POST /clarify ----------------------------- *)
Finish(r, status, payload, branch) ==
  req' = [req EXCEPT ![r].pc = "done",
                     ![r].response = MkResponse(status, payload),
                     ![r].branch = req[r].branch \cup branch]

\* a request arrives at the route
Receive(r, b) ==
  /\ boot = "serving"
  /\ "/clarify" \in routes
  /\ req[r].pc = "idle"
  /\ req' = [req EXCEPT ![r].pc = "get_json", ![r].body = b]
  /\ UNCHANGED <<env_key, flask_legacy, boot, openai_api_key, client, routes, log>>

\* line 75: data = request.get_json()
GetJson(r) ==
  /\ req[r].pc = "get_json"
  /\ LET b == req[r].body IN
       CASE b.kind = "malformed" -> Finish(r, 400, {}, {})
         [] b.kind = "not_json" ->
              IF flask_legacy
              THEN req' = [req EXCEPT ![r].pc = "get_fields",
                                      ![r].data = MkBody("null", Absent, Absent)]
              ELSE Finish(r, 415, {}, {})
         [] OTHER -> req' = [req EXCEPT ![r].pc = "get_fields", ![r].data = b]
  /\ UNCHANGED <<env_key, flask_legacy, boot, openai_api_key, client, routes, log>>

\* lines 76-77: data.get('query'), data.get('context', '')
GetFields(r) ==
  /\ req[r].pc = "get_fields"
  /\ LET d == req[r].data IN
       IF d.kind # "object"
       THEN \* AttributeError, unhandled: Flask answers 500
            Finish(r, 500, {}, {})
       ELSE req' = [req EXCEPT ![r].pc = "validate",
                               ![r].concept_query = DictGet(d, "query", None),
                               ![r].subject_context = DictGet(d, "context", Str(<<>>))]
  /\ UNCHANGED <<env_key, flask_legacy, boot, openai_api_key, client, routes, log>>

\* lines 80-82
Validate(r) ==
  /\ req[r].pc = "validate"
  /\ IF ~Truthy(req[r].concept_query)
     THEN Finish(r, 400, jsonify("error", ErrorText), {"error"})
     ELSE req' = [req EXCEPT ![r].pc = "compose"]
  /\ UNCHANGED <<env_key, flask_legacy, boot, openai_api_key, client, routes, log>>

\* line 85 (the call) and lines 25-38
Compose(r) ==
  /\ req[r].pc = "compose"
  /\ req' = [req EXCEPT ![r].pc = "call",
                        ![r].user_message =
                           user_message(req[r].concept_query, req[r].subject_context)]
  /\ UNCHANGED <<env_key, flask_legacy, boot, openai_api_key, client, routes, log>>

\* lines 42-51: client.chat.completions.create(...)
CallService(r, res) ==
  /\ req[r].pc = "call"
  /\ client # None
  /\ req' = [req EXCEPT ![r].pc = "extract",
                        ![r].calls = req[r].calls + 1,
                        ![r].result = res]
  /\ UNCHANGED <<env_key, flask_legacy, boot, openai_api_key, client, routes, log>>

\* lines 53-58: the return of the try block, or the except block
ExtractSharedExplanation(r) ==
  /\ req[r].pc = "extract"
  /\ LET res == req[r].result
         e == IF res.kind = "ok" THEN strip(res.text) ELSE FallbackText
     IN /\ req' = [x \in Requests |->
                     IF x = r
                     THEN [req[x] EXCEPT !.pc = "respond", !.explanation = e,
                                         !.raised = (res.kind # "ok")]
                     ELSE [req[x] EXCEPT !.explanation = e]]
        /\ log' = IF res.kind = "ok" THEN log
                  ELSE Append(log, [req |-> r, err |-> res.kind])
  /\ UNCHANGED <<env_key, flask_legacy, boot, openai_api_key, client, routes>>

ExtractNoLog(r) ==
  /\ req[r].pc = "extract"
  /\ LET res == req[r].result IN
       req' = [req EXCEPT ![r].pc = "respond",
                          ![r].raised = (res.kind # "ok"),
                          ![r].explanation =
                             IF res.kind = "ok" THEN strip(res.text) ELSE FallbackText]
  /\ UNCHANGED <<env_key, flask_legacy, boot, openai_api_key, client, routes, log>>

Extract(r) ==
  /\ req[r].pc = "extract"
  /\ LET res == req[r].result IN
       IF res.kind = "ok"
       THEN /\ req' = [req EXCEPT ![r].pc = "respond",
                                  ![r].explanation = strip(res.text)]
            /\ log' = log
       ELSE /\ req' = [req EXCEPT ![r].pc = "respond",
                                  ![r].raised = TRUE,
                                  ![r].explanation = FallbackText]
            /\ log' = Append(log, [req |-> r, err |-> res.kind])
  /\ UNCHANGED <<env_key, flask_legacy, boot, openai_api_key, client, routes>>

\* line 88
Respond(r) ==
  /\ req[r].pc = "respond"
  /\ Finish(r, 200, jsonify("explanation", req[r].explanation), {"success"})
  /\ UNCHANGED <<env_key, flask_legacy, boot, openai_api_key, client, routes, log>>

(* --------------------------- specifications ---------------------------- *)
\* one request, every body and every behaviour of the completion service
Next ==
  \/ GetEnv
  \/ CheckKey
  \/ BuildClient
  \/ RegisterRoutes
  \/ \E b \in Bodies : Receive(1, b)
  \/ GetJson(1)
  \/ GetFields(1)
  \/ Validate(1)
  \/ Compose(1)
  \/ \E res \in Results : CallService(1, res)
  \/ Extract(1)
  \/ Respond(1)

Spec == Init /\ [][Next]_vars

\* NumRequests requests handled concurrently, their steps interleaved
NextConc ==
  \/ GetEnv
  \/ CheckKey
  \/ BuildClient
  \/ RegisterRoutes
  \/ \E r \in Requests, b \in ConcBodies : Receive(r, b)
  \/ \E r \in Requests : GetJson(r)
  \/ \E r \in Requests : GetFields(r)
  \/ \E r \in Requests : Validate(r)
  \/ \E r \in Requests : Compose(r)
  \/ \E r \in Requests, res \in ConcResults : CallService(r, res)
  \/ \E r \in Requests : Extract(r)
  \/ \E r \in Requests : Respond(r)

SpecConc == Init /\ [][NextConc]_vars

(* ------------------------------ claims --------------------------------- *)
Done(r) == req[r].pc = "done"
Responded(r) == req[r].response # NoResponse
\* the body parses as a JSON value
WellFormed(r) == req[r].body.kind \in {"object", "null", "array", "scalar"}
Keys(r) == { p[1] : p \in req[r].response.payload }
\* the query instruction built from the request's own query field
QueryInstruction(b) == <<QueryPrefix>> \o Format(DictGet(b, "query", None)) \o <<ClauseEnd>>
\* the context clause naming the request's own context field
ContextClause(b) == <<ContextPrefix>> \o Format(b.context) \o <<ClauseEnd>>
Composed(r) == req[r].pc \in {"call", "extract", "respond", "done"} /\ req[r].user_message # <<>>

\* C1: every request whose query is non-empty, whatever the completion
\* service returns or raises, makes exactly one call to the service and gets
\* a 200 response whose explanation is a non-empty string.
C1_OneCallNonEmptyExplanation ==
  \A r \in Requests :
    (Done(r) /\ req[r].body.kind = "object" /\ Truthy(req[r].body.query)) =>
      /\ req[r].calls = 1
      /\ req[r].response.status = 200
      /\ \E t \in Texts \cup {FallbackText} :
           t # <<>> /\ req[r].response.payload = {<<"explanation", t>>}

\* C2: every request whose query is empty or absent (a well-formed JSON body
\* without a usable query field) gets status 400 with the body
\* {"error": "Concept query is required."} and makes no call to the service.
C2_MissingQueryIs400 ==
  \A r \in Requests :
    ( /\ Done(r)
      /\ WellFormed(r)
      /\ ~(req[r].body.kind = "object" /\ Truthy(req[r].body.query)) ) =>
      /\ req[r].response = MkResponse(400, {<<"error", ErrorText>>})
      /\ req[r].calls = 0

\* C3: whenever the completion call fails (raises, or returns no choices or
\* a null content), the response is never a 5xx, it is 200 with the
\* fallback apology as explanation, and the failure is in the server log
\* before the response exists.
C3_FailureMaskedAndLogged ==
  \A r \in Requests :
    req[r].result.kind \in FailureKinds =>
      /\ req[r].response.status < 500
      /\ (req[r].pc \in {"respond", "done"}) =>
            \E i \in 1..Len(log) : log[i] = [req |-> r, err |-> req[r].result.kind]
      /\ Done(r) => req[r].response = MkResponse(200, {<<"explanation", FallbackText>>})

C3_Witness ==
  \E r \in Requests :
    /\ Done(r)
    /\ req[r].result.kind = "null_content"
    /\ req[r].response.status = 200

\* C4 (as stated): the user instruction is the query instruction, followed by
\* the clause naming the context whenever the request carries a context
\* value (the empty string included), and by nothing when it carries none.
C4_ClauseWheneverContextProvided ==
  \A r \in Requests :
    Composed(r) =>
      /\ req[r].body.context.t \notin {"absent", "none"} =>
           req[r].user_message = QueryInstruction(req[r].body) \o ContextClause(req[r].body)
      /\ req[r].body.context = Absent =>
           req[r].user_message = QueryInstruction(req[r].body)

\* C4 (amended): the user instruction is the query instruction, followed by
\* the clause naming the context when the request carries a non-empty
\* (truthy) context, and by nothing when the context is omitted, null or
\* empty.
C4_ClauseWhenContextNonEmpty ==
  \A r \in Requests :
    Composed(r) =>
      /\ SubSeq(req[r].user_message, 1, Len(QueryInstruction(req[r].body)))
           = QueryInstruction(req[r].body)
      /\ req[r].body.context \in {Absent, None, Str(<<>>)} =>
           req[r].user_message = QueryInstruction(req[r].body)
      /\ req[r].body.context \notin {Absent, None, Str(<<>>)} =>
           req[r].user_message = QueryInstruction(req[r].body) \o ContextClause(req[r].body)

C4_Witness ==
  \E r \in Requests :
    /\ Done(r)
    /\ req[r].calls = 1
    /\ req[r].body.context = Str(<<"Operating Systems">>)
    /\ req[r].user_message[Len(req[r].user_message) - 1] = "Operating Systems"

\* C5: every response of POST /clarify (to a body that is well-formed JSON)
\* carries exactly one of the keys explanation and error, error only with
\* status 400 and explanation only with status 200.
C5_ExactlyOneKey ==
  \A r \in Requests :
    (Responded(r) /\ WellFormed(r)) =>
      /\ Keys(r) \in {{"explanation"}, {"error"}}
      /\ "error" \in Keys(r) => req[r].response.status = 400
      /\ "explanation" \in Keys(r) => req[r].response.status = 200

\* C6: every request that reaches the handler, whatever JSON value its body
\* is, ends in exactly one of the error branch (400) and the
\* success/fallback branch (200), never in an unhandled exception or a 5xx
\* response.
C6_ExactlyOneBranch ==
  \A r \in Requests :
    (Done(r) /\ WellFormed(r)) =>
      \/ req[r].branch = {"error"} /\ req[r].response.status = 400
      \/ req[r].branch = {"success"} /\ req[r].response.status = 200

\* C7: when the credential is unset or empty, start-up never gets past the
\* check: the client is never built, no route is registered and no request
\* is ever handled.
C7_NoServingWithoutCredential ==
  (env_key \in {None, Str(<<>>)}) =>
    /\ boot \in {"getenv", "check", "aborted"}
    /\ client = None
    /\ routes = {}
    /\ \A r \in Requests : req[r] = IdleRequest

C7_Witness ==
  /\ boot = "aborted"
  /\ env_key = Str(<<>>)
  /\ client = None

\* the falsy values of Python among the JSON values
FalsyListed(v) == v \in {Absent, None, Str(<<>>), Num(0), Bool(0), List(0), Dict(0)}

\* the response the relay owes to a body and to the outcome of its own call
RelayResponse(b, res) ==
  CASE b.kind = "malformed" -> MkResponse(400, {})
    [] b.kind = "not_json" -> IF flask_legacy THEN MkResponse(500, {}) ELSE MkResponse(415, {})
    [] b.kind # "object" -> MkResponse(500, {})
    [] FalsyListed(b.query) -> MkResponse(400, {<<"error", ErrorText>>})
    [] res.kind = "ok" -> MkResponse(200, {<<"explanation", strip(res.text)>>})
    [] OTHER -> MkResponse(200, {<<"explanation", FallbackText>>})

\* C8: under every interleaving of concurrent requests, each response is a
\* function of the request's own body and of the outcome of its own call,
\* every step touches the locals of one request only, and while serving no
\* step writes the credential, the client or the routes (the log is only
\* appended to).
C8_RequestsIndependent ==
  /\ [](\A r \in Requests : Done(r) => req[r].response = RelayResponse(req[r].body, req[r].result))
  /\ [][ /\ \A r1, r2 \in Requests :
              (r1 # r2) => (req'[r1] = req[r1] \/ req'[r2] = req[r2])
         /\ (boot = "serving") => UNCHANGED <<openai_api_key, client, routes, boot>>
         /\ Len(log') >= Len(log) /\ SubSeq(log', 1, Len(log)) = log ]_vars

C8_Witness ==
  /\ \A r \in Requests : Done(r) /\ req[r].calls = 1
  /\ \E r1, r2 \in Requests :
       /\ req[r1].result.kind = "ok"
       /\ req[r2].result.kind = "network"
       /\ req[r1].response # req[r2].response

\* C9: when the completion call returns a text, the explanation in the
\* response is that text without its leading and trailing whitespace: a
\* contiguous piece of the text that neither starts nor ends with
\* whitespace, everything cut off being whitespace.
C9_ExplanationIsTrimmedText ==
  \A r \in Requests :
    (Done(r) /\ req[r].result.kind = "ok") =>
      \E i \in 1..(Len(req[r].result.text) + 1), j \in 0..Len(req[r].result.text) :
        LET text == req[r].result.text
            e == SubSeq(text, i, j)
        IN /\ req[r].response = MkResponse(200, {<<"explanation", e>>})
           /\ \A k \in 1..Len(text) : (k < i \/ k > j) => text[k] \in {" ", "\n", "\t"}
           /\ e # <<>> => (e[1] \notin {" ", "\n", "\t"} /\ e[Len(e)] \notin {" ", "\n", "\t"})

C9_Witness ==
  \E r \in Requests :
    /\ Done(r)
    /\ req[r].result = MkResult("ok", <<" ", "a", "\n">>)
    /\ req[r].response.payload = {<<"explanation", <<"a">>>>}

\* C10: a request with a JSON object body is rejected exactly when its query
\* is falsy (absent, null, "", 0, false, [], {}); any other query, a
\* whitespace-only string included, causes one call with the value
\* interpolated in the prompt; a null or empty context gives the prompt of
\* an omitted context.
C10_RejectsExactlyFalsyQuery ==
  \A r \in Requests :
    (Done(r) /\ req[r].body.kind = "object") =>
      LET q == req[r].body.query
          m == req[r].user_message
      IN /\ FalsyListed(q) <=> req[r].response = MkResponse(400, {<<"error", ErrorText>>})
         /\ FalsyListed(q) <=> req[r].calls = 0
         /\ ~FalsyListed(q) =>
              /\ req[r].calls = 1
              /\ req[r].response.status = 200
              /\ m[1] = QueryPrefix
              /\ SubSeq(m, 2, 1 + Len(Format(q))) = Format(q)
              /\ m[2 + Len(Format(q))] = ClauseEnd
              /\ req[r].body.context \in {None, Str(<<>>)} =>
                   m = <<QueryPrefix>> \o Format(q) \o <<ClauseEnd>>

C10_Witness ==
  \E r \in Requests :
    /\ Done(r)
    /\ req[r].body.query = Str(<<" ">>)
    /\ req[r].body.context = None
    /\ req[r].calls = 1
    /\ req[r].user_message = <<QueryPrefix, " ", ClauseEnd>>

=============================================================================
